---- MODULE Spec2Model ----
(***************************************************************************)
(* A model of src/src/main.rs: the accept loop of CodeCraftsHttpServer,    *)
(* the per-connection handler HttpServer::handle_connection, the request   *)
(* parser, the route handlers and Response::to_http_string.                *)
(*                                                                         *)
(* Text is modelled byte by byte: a string is the sequence of its bytes,   *)
(* each ASCII byte written as a one-character string ("a", " ", "\r"),     *)
(* each other byte as "xHH" (its hexadecimal value).  Len of a text is its *)
(* length in bytes.                                                        *)
(***************************************************************************)
EXTENDS Integers, Sequences, FiniteSets, TLC

----------------------------------------------------------------------------
(* Option and Result values *)

None == [some |-> FALSE, val |-> <<>>]

Some(v) == [some |-> TRUE, val |-> v]

----------------------------------------------------------------------------
(* The string functions of the standard library that the server calls *)

\* The operators below bind their argument once (s \in {text}), so that it is
\* evaluated once however often the body reads it.

Whitespace == {" ", "\t", "\r", "\n"}

\* str::trim_start
TrimStart(text) ==
    CHOOSE r \in {LET kept == {i \in 1..Len(s) : s[i] \notin Whitespace}
                  IN  IF kept = {}
                      THEN <<>>
                      ELSE SubSeq(s, CHOOSE i \in kept : \A j \in kept : i <= j, Len(s))
                  : s \in {text}} : TRUE

\* str::trim_end
TrimEnd(text) ==
    CHOOSE r \in {LET kept == {i \in 1..Len(s) : s[i] \notin Whitespace}
                  IN  IF kept = {}
                      THEN <<>>
                      ELSE SubSeq(s, 1, CHOOSE i \in kept : \A j \in kept : i >= j)
                  : s \in {text}} : TRUE

\* str::trim
Trim(s) == TrimEnd(TrimStart(s))

\* str::starts_with
StartsWith(s, p) == Len(s) >= Len(p) /\ SubSeq(s, 1, Len(p)) = p

\* str::find: the index of the first occurrence of p in s, 0 when there is none
Find(text, pattern) ==
    CHOOSE r \in {LET idx == {i \in 1..(Len(s) - Len(p) + 1) :
                                 SubSeq(s, i, i + Len(p) - 1) = p}
                  IN  IF idx = {} THEN 0 ELSE CHOOSE i \in idx : \A j \in idx : i <= j
                  : s \in {text}, p \in {pattern}} : TRUE

\* str::contains
Contains(s, p) == Find(s, p) # 0

\* str::split(char): the pieces between the separators, empty pieces kept
RECURSIVE SplitChar(_, _)
SplitChar(text, sep) ==
    CHOOSE r \in {IF i = 0
                  THEN <<s>>
                  ELSE <<SubSeq(s, 1, i - 1)>> \o SplitChar(SubSeq(s, i + 1, Len(s)), sep)
                  : s \in {text}, i \in {Find(text, <<sep>>)}} : TRUE

\* str::split_once: None, or the texts before and after the first occurrence
SplitOnce(text, p) ==
    CHOOSE r \in {IF i = 0
                  THEN None
                  ELSE Some([key |-> SubSeq(s, 1, i - 1),
                             value |-> SubSeq(s, i + Len(p), Len(s))])
                  : s \in {text}, i \in {Find(text, p)}} : TRUE

StripCr(l) ==
    IF l # <<>> /\ l[Len(l)] = "\r" THEN SubSeq(l, 1, Len(l) - 1) ELSE l

\* str::lines: split after each "\n"; the "\n" and a "\r" before it are
\* stripped; a last line without "\n" is kept as it is
RECURSIVE Lines(_)
Lines(text) ==
    CHOOSE r \in {IF s = <<>>
                  THEN <<>>
                  ELSE IF i = 0
                       THEN <<s>>
                       ELSE <<StripCr(SubSeq(s, 1, i - 1))>>
                                \o Lines(SubSeq(s, i + 1, Len(s)))
                  : s \in {text}, i \in {Find(text, <<"\n">>)}} : TRUE

\* the index of the first whitespace byte of s, Len(s) + 1 when there is none
FirstWhitespace(s) ==
    LET idx == {i \in 1..Len(s) : s[i] \in Whitespace}
    IN  IF idx = {} THEN Len(s) + 1 ELSE CHOOSE i \in idx : \A j \in idx : i <= j

\* str::split_whitespace: the non-empty runs of non-whitespace bytes
RECURSIVE SplitWhitespace(_)
SplitWhitespace(text) ==
    CHOOSE r \in {IF t = <<>>
                  THEN <<>>
                  ELSE LET n == FirstWhitespace(t)
                       IN  <<SubSeq(t, 1, n - 1)>> \o SplitWhitespace(SubSeq(t, n, Len(t)))
                  : t \in {TrimStart(text)}} : TRUE

UpperCase ==
    <<"A", "B", "C", "D", "E", "F", "G", "H", "I", "J", "K", "L", "M",
      "N", "O", "P", "Q", "R", "S", "T", "U", "V", "W", "X", "Y", "Z">>

LowerCase ==
    <<"a", "b", "c", "d", "e", "f", "g", "h", "i", "j", "k", "l", "m",
      "n", "o", "p", "q", "r", "s", "t", "u", "v", "w", "x", "y", "z">>

ToLowerChar(ch) ==
    IF \E i \in 1..Len(UpperCase) : UpperCase[i] = ch
    THEN LowerCase[CHOOSE i \in 1..Len(UpperCase) : UpperCase[i] = ch]
    ELSE ch

\* str::to_lowercase
ToLowercase(text) ==
    CHOOSE r \in {[i \in 1..Len(s) |-> ToLowerChar(s[i])] : s \in {text}} : TRUE

Digits == <<"0", "1", "2", "3", "4", "5", "6", "7", "8", "9">>

IsDigit(ch) == \E i \in 1..Len(Digits) : Digits[i] = ch

DigitValue(ch) == (CHOOSE i \in 1..Len(Digits) : Digits[i] = ch) - 1

RECURSIVE DigitsValue(_)
DigitsValue(text) ==
    CHOOSE r \in {IF s = <<>>
                  THEN 0
                  ELSE 10 * DigitsValue(SubSeq(s, 1, Len(s) - 1)) + DigitValue(s[Len(s)])
                  : s \in {text}} : TRUE

\* str::parse::<usize>: an optional "+", then one or more decimal digits;
\* anything else is an error (the texts of the model stay far below 2^64)
ParseUsize(text) ==
    CHOOSE r \in {LET d == IF s # <<>> /\ Head(s) = "+" THEN Tail(s) ELSE s
                  IN  IF d # <<>> /\ \A i \in 1..Len(d) : IsDigit(d[i])
                      THEN [ok |-> TRUE, val |-> DigitsValue(d)]
                      ELSE [ok |-> FALSE, val |-> 0]
                  : s \in {text}} : TRUE

\* usize::to_string
RECURSIVE UsizeToString(_)
UsizeToString(n) ==
    IF n < 10
    THEN <<Digits[n + 1]>>
    ELSE UsizeToString(n \div 10) \o <<Digits[(n % 10) + 1]>>

----------------------------------------------------------------------------
(* Bytes outside ASCII.  The model needs their UTF-8 class only. *)

\* 0x80..0xBF: continuation bytes
ContinuationBytes == {"x8B", "xBD", "xBF"}

\* 0xC2..0xDF: the first byte of a two-byte sequence
Lead2Bytes == {"xCB"}

\* 0xE1..0xEC, 0xEE, 0xEF: the first byte of a three-byte sequence
Lead3Bytes == {"xEF"}

\* 0xC0, 0xC1, 0xF5..0xFF: never part of UTF-8
InvalidBytes == {"xFF"}

HighBytes == ContinuationBytes \cup Lead2Bytes \cup Lead3Bytes \cup InvalidBytes

\* U+FFFD REPLACEMENT CHARACTER in UTF-8
ReplacementChar == <<"xEF", "xBF", "xBD">>

\* String::from_utf8_lossy: valid sequences are kept, each maximal invalid
\* part is replaced by U+FFFD
RECURSIVE FromUtf8Lossy(_)
FromUtf8Lossy(b) ==
    IF b = <<>>
    THEN <<>>
    ELSE LET h == Head(b)
             n == Len(b)
         IN  CASE h \in Lead2Bytes /\ n >= 2 /\ b[2] \in ContinuationBytes ->
                      <<h, b[2]>> \o FromUtf8Lossy(Tail(Tail(b)))
               [] h \in Lead3Bytes /\ n >= 3 /\ b[2] \in ContinuationBytes
                                   /\ b[3] \in ContinuationBytes ->
                      <<h, b[2], b[3]>> \o FromUtf8Lossy(Tail(Tail(Tail(b))))
               [] h \in Lead3Bytes /\ n >= 2 /\ b[2] \in ContinuationBytes
                                   /\ ~(n >= 3 /\ b[3] \in ContinuationBytes) ->
                      ReplacementChar \o FromUtf8Lossy(Tail(Tail(b)))
               [] OTHER ->
                      IF h \in HighBytes
                      THEN ReplacementChar \o FromUtf8Lossy(Tail(b))
                      ELSE <<h>> \o FromUtf8Lossy(Tail(b))

\* std::str::from_utf8 succeeds, and read_line and read_to_string accept the
\* bytes, exactly when no part of them is invalid: every byte is ASCII or
\* has its place in a complete two-byte or three-byte sequence
Utf8Valid(bytes) ==
    \E b \in {bytes} :
        LET n == Len(b)
            Cont(i) == i >= 1 /\ i <= n /\ b[i] \in ContinuationBytes
            Lead2(i) == i >= 1 /\ i <= n /\ b[i] \in Lead2Bytes
            Lead3(i) == i >= 1 /\ i <= n /\ b[i] \in Lead3Bytes
        IN  \A i \in 1..n :
                \/ b[i] \notin HighBytes
                \/ Lead2(i) /\ Cont(i + 1)
                \/ Lead3(i) /\ Cont(i + 1) /\ Cont(i + 2)
                \/ Cont(i) /\ Lead2(i - 1)
                \/ Cont(i) /\ Lead3(i - 1) /\ Cont(i + 1)
                \/ Cont(i) /\ Lead3(i - 2) /\ Cont(i - 1)

----------------------------------------------------------------------------
(* Text constants of the program *)

CRLF == <<"\r", "\n">>

ColonSpace == <<":", " ">>

StrGet == <<"G", "E", "T">>

StrPost == <<"P", "O", "S", "T">>

StrPut == <<"P", "U", "T">>

StrDelete == <<"D", "E", "L", "E", "T", "E">>

StrPatch == <<"P", "A", "T", "C", "H">>

StrHttp1_0 == <<"H", "T", "T", "P", "/", "1", ".", "0">>

StrHttp1_1 == <<"H", "T", "T", "P", "/", "1", ".", "1">>

StrHttp2_0 == <<"H", "T", "T", "P", "/", "2", ".", "0">>

ContentLengthPrefix ==
    <<"C", "o", "n", "t", "e", "n", "t", "-", "L", "e", "n", "g", "t", "h", ":">>

KeyAcceptEncoding ==
    <<"a", "c", "c", "e", "p", "t", "-", "e", "n", "c", "o", "d", "i", "n", "g">>

KeyUserAgent == <<"u", "s", "e", "r", "-", "a", "g", "e", "n", "t">>

StrGzip == <<"g", "z", "i", "p">>

SegUserAgent == KeyUserAgent

SegEcho == <<"e", "c", "h", "o">>

SegFiles == <<"f", "i", "l", "e", "s">>

ContentType == <<"C", "o", "n", "t", "e", "n", "t", "-", "T", "y", "p", "e">>

ContentLength ==
    <<"C", "o", "n", "t", "e", "n", "t", "-", "L", "e", "n", "g", "t", "h">>

ContentEncoding ==
    <<"C", "o", "n", "t", "e", "n", "t", "-", "E", "n", "c", "o", "d", "i", "n", "g">>

TextPlain == <<"t", "e", "x", "t", "/", "p", "l", "a", "i", "n">>

OctetStream ==
    <<"a", "p", "p", "l", "i", "c", "a", "t", "i", "o", "n", "/",
      "o", "c", "t", "e", "t", "-", "s", "t", "r", "e", "a", "m">>

----------------------------------------------------------------------------
(* HashMap<String, String> *)

EmptyMap == [k \in {} |-> <<>>]

\* HashMap::insert: the last value of a key wins
Insert(h, k, v) == [x \in (DOMAIN h) \cup {k} |-> IF x = k THEN v ELSE h[x]]

\* HashMap::get
Get(h, k) == IF k \in DOMAIN h THEN Some(h[k]) ELSE None

----------------------------------------------------------------------------
(* enum Method, enum Version, enum ParseError *)

Methods == {"Get", "Post", "Put", "Delete", "Patch"}

Versions == {"Http1_0", "Http1_1", "Http2_0"}

NoRequest ==
    [method |-> "Get", path |-> <<>>, version |-> "Http1_1",
     headers |-> EmptyMap, body |-> None]

Ok(v) == [ok |-> TRUE, err |-> "", val |-> v]

Err(e) == [ok |-> FALSE, err |-> e, val |-> NoRequest]

\* Version::to_str
to_str(version) ==
    CASE version = "Http1_0" -> StrHttp1_0
      [] version = "Http1_1" -> StrHttp1_1
      [] version = "Http2_0" -> StrHttp2_0

\* a parse_method that takes an unknown method for GET
parse_method_lenient(method) ==
    CASE method = StrGet -> Ok("Get")
      [] method = StrPost -> Ok("Post")
      [] method = StrPut -> Ok("Put")
      [] method = StrDelete -> Ok("Delete")
      [] method = StrPatch -> Ok("Patch")
      [] OTHER -> Ok("Get")

parse_method(method) ==
    CASE method = StrGet -> Ok("Get")
      [] method = StrPost -> Ok("Post")
      [] method = StrPut -> Ok("Put")
      [] method = StrDelete -> Ok("Delete")
      [] method = StrPatch -> Ok("Patch")
      [] OTHER -> Err("InvalidMethod")

parse_version(version) ==
    CASE version = StrHttp1_0 -> Ok("Http1_0")
      [] version = StrHttp1_1 -> Ok("Http1_1")
      [] version = StrHttp2_0 -> Ok("Http2_0")
      [] OTHER -> Err("InvalidVersion")

\* The while loop of parse_request over the lines after the request line: a
\* line with ": " in it is a header (key in lower case, last one wins), any
\* other line becomes the body (the last such line wins)
RECURSIVE ParseLines(_, _, _)
ParseLines(rest, map, last) ==
    CHOOSE r \in {IF lines = <<>>
                  THEN [headers |-> headers, body |-> body]
                  ELSE LET kv == SplitOnce(Head(lines), ColonSpace)
                       IN  IF kv.some
                           THEN ParseLines(Tail(lines),
                                           Insert(headers, ToLowercase(kv.val.key),
                                                  kv.val.value),
                                           body)
                           ELSE ParseLines(Tail(lines), headers, Some(Head(lines)))
                  : lines \in {rest}, headers \in {map}, body \in {last}} : TRUE

parse_request(input) ==
  CHOOSE r \in {
        IF lines = <<>>
        THEN Err("InvalidRequest")
        ELSE LET parts == SplitWhitespace(lines[1])
             IN  IF Len(parts) < 1
                 THEN Err("InvalidRequest")
                 ELSE LET method == parse_method(parts[1])
                      IN  IF ~method.ok
                          THEN method
                          ELSE IF Len(parts) < 3
                               THEN Err("InvalidRequest")
                               ELSE LET version == parse_version(parts[3])
                                        rest == ParseLines(Tail(lines), EmptyMap, None)
                                    IN  IF ~version.ok
                                        THEN version
                                        ELSE Ok([method |-> method.val,
                                                 path |-> parts[2],
                                                 version |-> version.val,
                                                 headers |-> rest.headers,
                                                 body |-> rest.body])
    : lines \in {Lines(input)}} : TRUE

----------------------------------------------------------------------------
(* The route handlers: each builds a Response *)

Response(status_code, version, headers, body) ==
    [status_code |-> status_code, version |-> version, headers |-> headers,
     body |-> body, should_compress |-> FALSE]

handle_root_request(request) == Response(200, request.version, EmptyMap, None)

handle_user_agent_request(request) ==
    LET ua == Get(request.headers, KeyUserAgent)
        resp_headers ==
            Insert(Insert(EmptyMap, ContentType, TextPlain),
                   ContentLength,
                   IF ua.some THEN UsizeToString(Len(ua.val)) ELSE <<"0">>)
    IN  Response(200, request.version, resp_headers, ua)

handle_echo_request(request, echo_str) ==
    LET resp_headers ==
            Insert(Insert(EmptyMap, ContentType, TextPlain),
                   ContentLength, UsizeToString(Len(echo_str)))
    IN  Response(200, request.version, resp_headers, Some(echo_str))

\* a handler that answers HTTP/1.1 whatever the version of the request
handle_not_found_1_1(request) == Response(404, "Http1_1", EmptyMap, None)

handle_not_found(request) == Response(404, request.version, EmptyMap, None)

\* a handler that answers a parse failure with 404
handle_parse_error_404 == Response(404, "Http1_1", EmptyMap, None)

handle_internal_server_error == Response(500, "Http1_1", EmptyMap, None)

\* handle_file_request, Method::Get: file_content is what File::open and
\* read_to_string gave, None when either failed
FileGetResponse(request, file_content) ==
    IF file_content.some
    THEN Response(200, request.version,
                  Insert(Insert(EmptyMap, ContentType, OctetStream),
                         ContentLength, UsizeToString(Len(file_content.val))),
                  file_content)
    ELSE Response(404, request.version, EmptyMap, None)

\* handle_file_request, Method::Post, after File::create and write_all succeeded
\* a handler that answers 202 where handle_file_request answers 201
FileAcceptedResponse(request) ==
    Response(202, request.version,
             Insert(EmptyMap, ContentType, OctetStream), request.body)

FileCreatedResponse(request) ==
    Response(201, request.version,
             Insert(EmptyMap, ContentType, OctetStream), request.body)

\* handle_file_request: no body, File::create or write_all failed, or a
\* method other than GET and POST
\* a handler that answers 405 where handle_file_request answers 500
FileError405(request) == Response(405, request.version, EmptyMap, None)

FileErrorResponse(request) == Response(500, request.version, EmptyMap, None)

\* a handler that answers 500 without a configured directory
FileNoDir500(request) == Response(500, request.version, EmptyMap, None)

\* handle_file_request without a configured directory
FileNoDirResponse(request) == Response(404, request.version, EmptyMap, None)

\* handle_connection: the accept-encoding header holds "gzip" in any letter case
supports_gzip(request) ==
    LET encodings == Get(request.headers, KeyAcceptEncoding)
    IN  IF encodings.some THEN Contains(ToLowercase(encodings.val), StrGzip) ELSE FALSE

\* arms that set should_compress whatever the client accepts
MarkCompressAlways(resp, request) == [resp EXCEPT !.should_compress = TRUE]

\* handle_connection: the echo and files arms set should_compress
MarkCompress(resp, request) ==
    IF supports_gzip(request) THEN [resp EXCEPT !.should_compress = TRUE] ELSE resp

\* the arm of the match on the path segments
Route(request) ==
    LET path_parts == SplitChar(request.path, "/")
    IN  CASE path_parts = <<<<>>, <<>>>> -> "root"
          [] path_parts = <<<<>>, SegUserAgent>> -> "user-agent"
          [] Len(path_parts) = 3 /\ path_parts[1] = <<>> /\ path_parts[2] = SegEcho -> "echo"
          [] Len(path_parts) = 3 /\ path_parts[1] = <<>> /\ path_parts[2] = SegFiles -> "files"
          [] OTHER -> "not-found"

\* the third path segment: echo_str or filename
Segment3(request) == SplitChar(request.path, "/")[3]

----------------------------------------------------------------------------
(* Response::to_http_string *)

\* the gzip member header GzEncoder writes: magic 1f 8b, CM = 8 (deflate),
\* no flags, no mtime, XFL = 0, OS = 255 (unknown)
GzipHeader ==
    <<"x1F", "x8B", "x08", "x00", "x00", "x00", "x00", "x00", "x00", "xFF">>

\* the byte of value n, for the small values the model needs
SmallBytes ==
    <<"x00", "x01", "x02", "x03", "x04", "x05", "x06", "x07", "x08", "\t", "\n",
      "x0B", "x0C", "\r", "x0E", "x0F", "x10", "x11", "x12", "x13", "x14">>

\* GzEncoder::write_all and finish: header, deflate stream, CRC-32 and ISIZE
\* (the input length, little-endian).  The deflate stream and the CRC are not
\* computed: every byte of them is `fill`, a byte the model does not know.
GzEncode(body, fill) ==
    GzipHeader
    \o [i \in 1..(Len(body) + 2) |-> fill]
    \o <<fill, fill, fill, fill>>
    \o <<SmallBytes[Len(body) + 1], "x00", "x00", "x00">>

reason_phrase(status_code) ==
    CASE status_code = 200 -> <<"O", "K">>
      [] status_code = 201 -> <<"C", "r", "e", "a", "t", "e", "d">>
      [] status_code = 404 -> <<"N", "o", "t", " ", "F", "o", "u", "n", "d">>
      [] status_code = 500 ->
             <<"I", "n", "t", "e", "r", "n", "a", "l", " ", "S", "e", "r", "v", "e", "r",
               " ", "E", "r", "r", "o", "r">>
      [] OTHER -> <<"U", "n", "k", "n", "o", "w", "n", " ", "S", "t", "a", "t", "u", "s">>

\* slice::join
RECURSIVE Join(_, _)
Join(parts, sep) ==
    IF parts = <<>>
    THEN <<>>
    ELSE IF Len(parts) = 1
         THEN parts[1]
         ELSE parts[1] \o sep \o Join(Tail(parts), sep)

\* the keys of a HashMap in the order its iterator yields them: hash_order
\* lists every header name in the order of this map's hash
IterKeys(headers, hash_order) ==
    SelectSeq(hash_order, LAMBDA k : k \in DOMAIN headers)

\* the headers to_http_string writes: with should_compress and a body,
\* Content-Encoding and the compressed length are inserted
OutHeaders(resp, fill) ==
    IF resp.should_compress /\ resp.body.some
    THEN Insert(Insert(resp.headers, ContentEncoding, StrGzip),
                ContentLength, UsizeToString(Len(GzEncode(resp.body.val, fill))))
    ELSE resp.headers

\* the body to_http_string writes
OutBody(resp, fill) ==
    IF resp.should_compress /\ resp.body.some
    THEN FromUtf8Lossy(GzEncode(resp.body.val, fill))
    ELSE IF resp.body.some THEN resp.body.val ELSE <<>>

StatusLine(resp) ==
    to_str(resp.version) \o <<" ">> \o UsizeToString(resp.status_code)
    \o <<" ">> \o reason_phrase(resp.status_code)

HeaderBlock(resp, hash_order, fill) ==
    LET headers == OutHeaders(resp, fill)
        keys == IterKeys(headers, hash_order)
    IN  Join([i \in 1..Len(keys) |-> keys[i] \o ColonSpace \o headers[keys[i]]], CRLF)

to_http_string(resp, hash_order, fill) ==
    StatusLine(resp) \o CRLF \o HeaderBlock(resp, hash_order, fill)
    \o CRLF \o CRLF \o OutBody(resp, fill)

----------------------------------------------------------------------------
(* The requests clients send *)

Sp == <<" ">>

PathRoot == <<"/">>

PathUserAgent == <<"/">> \o SegUserAgent

PathEcho == <<"/">> \o SegEcho \o <<"/", "a", "b">>

FileName == <<"f">>

PathFile == <<"/">> \o SegFiles \o <<"/">> \o FileName

PathOther == <<"/", "n", "o">>

RequestLine(method, path, version) == method \o Sp \o path \o Sp \o version

HdrAcceptGzip ==
    <<"A", "c", "c", "e", "p", "t", "-", "E", "n", "c", "o", "d", "i", "n", "g">>
    \o ColonSpace \o StrGzip

\* another letter case of the header name and of the value
HdrAcceptGzipMixed ==
    KeyAcceptEncoding \o ColonSpace \o <<"b", "r", ",", " ", "G", "Z", "i", "p">>

HdrUserAgent ==
    <<"U", "s", "e", "r", "-", "A", "g", "e", "n", "t">> \o ColonSpace \o <<"u", "a">>

\* a header line without ": "
HdrNoColon == <<"X", "-", "F", "l", "a", "g">>

HdrContentLength(value) == ContentLengthPrefix \o Sp \o value

HdrContentLengthLower(value) == ToLowercase(ContentLengthPrefix) \o Sp \o value

\* what the client sends: the request line, the header lines, the blank line
\* (unless the client stops before it), the body; then the stream ends with
\* end-of-stream ("eof") or with an error ("error")
ClientRequest(line, headers, blank, body, end) ==
    [line |-> line, headers |-> headers, blank |-> blank, body |-> body, end |-> end]

RECURSIVE HeaderBytes(_)
HeaderBytes(headers) ==
    IF headers = <<>> THEN <<>> ELSE Head(headers) \o CRLF \o HeaderBytes(Tail(headers))

\* the bytes of a request on the wire
Wire(r) ==
    r.line \o CRLF \o HeaderBytes(r.headers)
    \o (IF r.blank THEN CRLF ELSE <<>>) \o r.body

BodyAb == <<"a", "b">>

\* a Content-Length no allocation can serve
HugeLength == <<"9", "9">>

BodyTwoLines == <<"a", "\n", "b">>

BodyColon == <<"k", ":", " ", "v">>

BodyNotUtf8 == <<"a", "xFF">>

Bodies == {BodyAb, BodyTwoLines, BodyColon, BodyNotUtf8}

\* GET, POST and PUT on every route, with and without Accept-Encoding
RoutingRequests ==
    {ClientRequest(RequestLine(m, p, v), h, TRUE, <<>>, "eof") :
        m \in {StrGet, StrPost, StrPut},
        p \in {PathRoot, PathUserAgent, PathEcho, PathFile, PathOther},
        v \in {StrHttp1_1, StrHttp2_0},
        h \in {<<>>, <<HdrAcceptGzip>>, <<HdrAcceptGzipMixed>>}}

\* request lines parse_request rejects or is lenient about: no line at all,
\* a missing version, an unknown method, an unknown version, a fourth token
MalformedRequests ==
    {ClientRequest(l, <<>>, TRUE, <<>>, "eof") :
        l \in {<<>>,
               StrGet \o Sp \o PathRoot,
               StrGet,
               <<"B", "R", "E", "W">> \o Sp \o PathRoot,
               <<"B", "R", "E", "W">> \o Sp \o PathRoot \o Sp \o StrHttp1_1,
               RequestLine(StrGet, PathRoot, <<"H", "T", "T", "P", "/", "9">>),
               RequestLine(StrGet, PathRoot, StrHttp1_1) \o Sp \o <<"x">>}}

\* the Content-Length lines a client may send with body b: the length, the
\* length under a lower-case name, a value that is no number, a length the
\* body falls short of
ContentLengthHeaders(b) ==
    {HdrContentLength(UsizeToString(Len(b))),
     HdrContentLengthLower(UsizeToString(Len(b))),
     HdrContentLength(<<"z">>),
     HdrContentLength(UsizeToString(Len(b) + 1))}

PostRequests ==
    {ClientRequest(RequestLine(StrPost, PathFile, StrHttp1_1), <<cl>> \o ae, TRUE, b, "eof") :
        b \in Bodies, cl \in UNION {ContentLengthHeaders(x) : x \in Bodies},
        ae \in {<<>>, <<HdrAcceptGzip>>}}

OtherRequests ==
    {ClientRequest(RequestLine(StrGet, PathUserAgent, StrHttp1_0), <<HdrUserAgent>>, TRUE, <<>>, "eof"),
     ClientRequest(RequestLine(StrGet, PathUserAgent, StrHttp1_1),
                   <<HdrUserAgent, HdrAcceptGzip>>, TRUE, <<>>, "eof"),
     ClientRequest(RequestLine(StrPost, PathFile, StrHttp1_1), <<HdrNoColon>>, TRUE, <<>>, "eof"),
     ClientRequest(RequestLine(StrPost, PathFile, StrHttp1_1), <<>>, TRUE, BodyAb, "eof"),
     ClientRequest(RequestLine(StrPost, PathFile, StrHttp1_1),
                   <<HdrContentLength(HugeLength)>>, TRUE, BodyAb, "eof"),
     ClientRequest(RequestLine(StrPost, PathFile, StrHttp1_1),
                   <<HdrContentLengthLower(<<"z">>)>>, TRUE, BodyAb, "eof"),
     ClientRequest(RequestLine(StrGet, PathRoot, StrHttp1_1),
                   <<HdrContentLengthLower(<<"z">>)>>, TRUE, <<>>, "eof"),
     ClientRequest(RequestLine(StrDelete, PathFile, StrHttp1_0), <<>>, TRUE, <<>>, "eof"),
     ClientRequest(RequestLine(StrPatch, PathFile, StrHttp2_0), <<>>, TRUE, <<>>, "eof"),
     ClientRequest(RequestLine(StrGet, PathRoot, StrHttp1_1), <<>>, FALSE, <<>>, "eof"),
     ClientRequest(RequestLine(StrGet, PathRoot, StrHttp1_1), <<>>, FALSE, <<>>, "error")}

\* the requests of ReqSpec, which serves one connection
Requests == RoutingRequests \cup MalformedRequests \cup PostRequests \cup OtherRequests

----------------------------------------------------------------------------
(* The server *)

\* the connections the listener may accept
MaxConns == 2

\* accept errors the model follows
MaxAcceptErrors == 1

\* the largest buffer the allocator grants, on the scale of the lengths of the
\* model (a 64-bit target refuses any length above its address space, 2^47)
AllocLimit == 8

Conns == 1..MaxConns

VARIABLES
    conn,           \* per connection: the worker thread running handle_connection
    files,          \* the files of the served directory: existence and bytes
    file_dir,       \* HttpServer.file_dir: whether --directory was given
    deflate_fill,   \* the byte GzEncode fills the deflate stream with
    listening,      \* the accept loop of start is running
    accept_errors   \* accept errors logged so far

vars == <<conn, files, file_dir, deflate_fill, listening, accept_errors>>

NoClientRequest == ClientRequest(<<>>, <<>>, FALSE, <<>>, "eof")

NoResponse == [some |-> FALSE, val |-> Response(0, "Http1_1", EmptyMap, None)]

NoFile == [exists |-> FALSE, data |-> <<>>]

\* what a file of the served directory is when the server starts: missing,
\* or there with some content
InitialFiles == {NoFile, [exists |-> TRUE, data |-> <<"o", "l", "d">>]}

\* the names under the served directory that the model follows
FileNames == {FileName}

\* a slot of the listener before a connection is accepted on it
IdleConn ==
    [pc |-> "Idle", sent |-> NoClientRequest, wire |-> <<>>,
     request_lines |-> <<>>, content_length |-> 0, request |-> Err(""),
     response |-> NoResponse, hash_order |-> <<>>, file_pos |-> 0, written |-> None,
     result |-> ""]

HeaderNames == {ContentType, ContentLength, ContentEncoding}

\* the orders in which a HashMap may yield the header names
HashOrders == {o \in [1..3 -> HeaderNames] : \A i, j \in 1..3 : o[i] = o[j] => i = j}

Init ==
    /\ conn = [c \in Conns |-> IdleConn]
    /\ files \in [FileNames -> InitialFiles]
    /\ file_dir \in BOOLEAN
    /\ deflate_fill \in {"K", "xCB"}
    /\ listening = TRUE
    /\ accept_errors = 0

\* start: the body of the for loop over listener.incoming(), arm Ok:
\* a thread is spawned that owns the stream
Accept(c, r) ==
    /\ listening
    /\ conn[c].pc = "Idle"
    /\ \A d \in Conns : d < c => conn[d].pc # "Idle"
    /\ conn' = [conn EXCEPT ![c] = [IdleConn EXCEPT !.pc = "Accepted", !.sent = r,
                                                     !.wire = Wire(r)]]
    /\ UNCHANGED <<files, file_dir, deflate_fill, listening, accept_errors>>

\* whether the accept loop goes on after an accept error
ListeningAfterAcceptError(l) == l

\* start: arm Err of the for loop: the error is printed
AcceptError ==
    /\ listening
    /\ accept_errors < MaxAcceptErrors
    /\ accept_errors' = accept_errors + 1
    /\ listening' = ListeningAfterAcceptError(listening)
    /\ UNCHANGED <<conn, files, file_dir, deflate_fill>>

\* handle_connection returns Err through `?`: the thread prints the error
\* and ends, the stream is dropped, nothing is written
Fatal(cs, c, context) ==
    [cs EXCEPT ![c].pc = "Closed", ![c].result = context]

\* handle_connection, lines 75-77: the reader and the empty buffers
BeginRead(c) ==
    /\ conn[c].pc = "Accepted"
    /\ conn' = [conn EXCEPT ![c].pc = "ReadingHeaders",
                            ![c].request_lines = <<>>,
                            ![c].content_length = 0]
    /\ UNCHANGED <<files, file_dir, deflate_fill, listening, accept_errors>>

\* BufRead::read_line on the unread bytes: the bytes up to and including the
\* first "\n", all of them when there is none, none at end-of-stream
NextLine(wire) ==
    LET i == Find(wire, <<"\n">>)
    IN  IF i = 0 THEN wire ELSE SubSeq(wire, 1, i)

\* read_line fails when the stream ends in an error before a "\n" arrives
ReadLineFails(wire, end) == end = "error" /\ Find(wire, <<"\n">>) = 0

\* a body read that is entered for a length of 0 too
NeedsBodyAlways(content_length) == content_length >= 0

\* line 94: the body is read when the tracked length is positive
NeedsBody(content_length) == content_length > 0

\* a header loop that ends at a blank line only, not at end-of-stream
HeaderEndBlankLineOnly(line) == line # <<>> /\ Trim(line) = <<>>

\* line 82: the header loop ends at a line that is empty when trimmed, which
\* the empty line read at end-of-stream is too
HeaderEnd(line) == Trim(line) = <<>>

\* lines 85-90: the Content-Length a header line sets: the parse result, or
\* None when the line leaves the tracked value alone
TrackedLength(line) ==
    IF StartsWith(line, ContentLengthPrefix)
    THEN CHOOSE r \in {IF Len(parts) = 2 THEN Some(ParseUsize(Trim(parts[2]))) ELSE None
                       : parts \in {SplitChar(line, ":")}} : TRUE
    ELSE None

\* handle_connection, one turn of the loop of lines 79-92
ReadLine(c) ==
    \E k \in {conn[c]} : \E line \in {NextLine(k.wire)} :
    \E tracked \in {TrackedLength(line)} :
    LET rest == SubSeq(k.wire, Len(line) + 1, Len(k.wire))
    IN  /\ k.pc = "ReadingHeaders"
        /\ \/ /\ ReadLineFails(k.wire, k.sent.end) \/ ~Utf8Valid(line)
              /\ conn' = Fatal(conn, c, "Failed to read line")
           \/ /\ ~ReadLineFails(k.wire, k.sent.end)
              /\ Utf8Valid(line)
              /\ HeaderEnd(line)
              /\ conn' = [conn EXCEPT ![c].wire = rest,
                                      ![c].pc = IF NeedsBody(k.content_length)
                                                THEN "ReadingBody"
                                                ELSE "Dispatching"]
           \/ /\ ~ReadLineFails(k.wire, k.sent.end)
              /\ Utf8Valid(line)
              /\ ~HeaderEnd(line)
              /\ tracked.some
              /\ ~tracked.val.ok
              /\ conn' = Fatal(conn, c, "Invalid Content-Length")
           \/ /\ ~ReadLineFails(k.wire, k.sent.end)
              /\ Utf8Valid(line)
              /\ ~HeaderEnd(line)
              /\ tracked.some => tracked.val.ok
              /\ conn' = [conn EXCEPT ![c].wire = rest,
                                      ![c].content_length =
                                          IF tracked.some THEN tracked.val.val ELSE @,
                                      ![c].request_lines = @ \o line]
        /\ UNCHANGED <<files, file_dir, deflate_fill, listening, accept_errors>>

\* line 95, vec![0; content_length]: the allocator refuses a buffer above
\* AllocLimit, and a refused allocation aborts the process
AllocFails(content_length) == content_length > AllocLimit

\* the process aborts: every thread ends and every open stream is dropped
Abort(cs) ==
    [d \in DOMAIN cs |->
        IF cs[d].pc \in {"Idle", "Closed"}
        THEN cs[d]
        ELSE [cs[d] EXCEPT !.pc = "Closed", !.result = "aborted"]]

\* handle_connection, lines 94-100: the buffer of content_length bytes and
\* read_exact into it
ReadBody(c) ==
    LET k == conn[c]
    IN  /\ k.pc = "ReadingBody"
        /\ \/ /\ AllocFails(k.content_length)
              /\ conn' = Abort(conn)
              /\ listening' = FALSE
           \/ /\ ~AllocFails(k.content_length)
              /\ Len(k.wire) < k.content_length
              /\ conn' = Fatal(conn, c, "Failed to read body")
              /\ UNCHANGED listening
           \/ /\ ~AllocFails(k.content_length)
              /\ Len(k.wire) >= k.content_length
              /\ conn' = [conn EXCEPT
                              ![c].wire = SubSeq(k.wire, k.content_length + 1, Len(k.wire)),
                              ![c].request_lines = @ \o SubSeq(k.wire, 1, k.content_length),
                              ![c].pc = "Dispatching"]
              /\ UNCHANGED listening
        /\ UNCHANGED <<files, file_dir, deflate_fill, accept_errors>>

\* File::open and read_to_string: the text of the file, None when the file
\* is missing or is not UTF-8
ReadFile(fs, filename) ==
    IF filename \in DOMAIN fs /\ fs[filename].exists /\ Utf8Valid(fs[filename].data)
    THEN Some(fs[filename].data)
    ELSE None

\* File::create on an openable path: the file exists and is empty
Truncate(fs, filename) == [fs EXCEPT ![filename] = [exists |-> TRUE, data |-> <<>>]]

\* a write call of a handle in append mode: the bytes go to the end
WriteAppend(fs, filename, pos, chunk) ==
    [fs EXCEPT ![filename].data = @ \o chunk]

\* one write call at offset pos of the handle: the bytes from pos on are
\* overwritten, a gap before pos reads as zero bytes
WriteAt(fs, filename, pos, chunk) ==
    LET old == fs[filename].data
        padded == IF Len(old) < pos
                  THEN old \o [i \in 1..(pos - Len(old)) |-> "x00"]
                  ELSE old
    IN  [fs EXCEPT ![filename].data =
             SubSeq(padded, 1, pos) \o chunk
             \o SubSeq(padded, pos + Len(chunk) + 1, Len(padded))]

\* the arms of the match of handle_connection that touch no file
RouteResponse(request) ==
    LET route == Route(request)
    IN  CASE route = "root" -> handle_root_request(request)
          [] route = "user-agent" -> handle_user_agent_request(request)
          [] route = "echo" ->
                 MarkCompress(handle_echo_request(request, Segment3(request)), request)
          [] OTHER -> handle_not_found(request)

\* handle_file_request goes on to File::create: a directory, POST and a body
CreatesFile(request, dir) == dir /\ request.method = "Post" /\ request.body.some

\* handle_file_request where it does not create a file
handle_file_request(request, filename, dir, fs) ==
    IF ~dir
    THEN FileNoDirResponse(request)
    ELSE IF request.method = "Get"
         THEN FileGetResponse(request, ReadFile(fs, filename))
         ELSE FileErrorResponse(request)

\* the response is ready: to_http_string and write_all come next.  The
\* HashMap of its headers was created by the handler with a hash of its own,
\* which fixes the order in which its keys are iterated from now on.
Respond(cs, c, resp, order) ==
    [cs EXCEPT ![c].response = Some(resp),
               ![c].hash_order = IterKeys(OutHeaders(resp, deflate_fill), order),
               ![c].pc = "WritingResponse"]

\* handle_connection, lines 102-134: from_utf8, parse_request and the match
\* on the path, up to and including File::create
Dispatch(c) ==
    \E k \in {conn[c]} : \E parsed \in {parse_request(k.request_lines)} :
    \E request \in {parsed.val} : \E order \in HashOrders :
    LET filename == Segment3(request)
        parsedConn == [conn EXCEPT ![c].request = parsed]
    IN  /\ k.pc = "Dispatching"
        /\ \/ /\ ~Utf8Valid(k.request_lines)
              /\ conn' = Fatal(conn, c, "Utf8Error")
              /\ UNCHANGED files
           \/ /\ Utf8Valid(k.request_lines)
              /\ ~parsed.ok
              /\ conn' = Respond(parsedConn, c, handle_internal_server_error, order)
              /\ UNCHANGED files
           \/ /\ Utf8Valid(k.request_lines)
              /\ parsed.ok
              /\ Route(request) # "files"
              /\ conn' = Respond(parsedConn, c, RouteResponse(request), order)
              /\ UNCHANGED files
           \/ /\ Utf8Valid(k.request_lines)
              /\ parsed.ok
              /\ Route(request) = "files"
              /\ ~CreatesFile(request, file_dir)
              /\ conn' = Respond(parsedConn, c,
                                 MarkCompress(handle_file_request(request, filename,
                                                                  file_dir, files),
                                              request), order)
              /\ UNCHANGED files
           \/ \* File::create fails
              /\ Utf8Valid(k.request_lines)
              /\ parsed.ok
              /\ Route(request) = "files"
              /\ CreatesFile(request, file_dir)
              /\ conn' = Respond(parsedConn, c,
                                 MarkCompress(FileErrorResponse(request), request), order)
              /\ UNCHANGED files
           \/ \* File::create succeeds: the file is truncated
              /\ Utf8Valid(k.request_lines)
              /\ parsed.ok
              /\ Route(request) = "files"
              /\ CreatesFile(request, file_dir)
              /\ filename \in FileNames
              /\ files' = Truncate(files, filename)
              /\ conn' = IF request.body.val = <<>>
                         THEN Respond(parsedConn, c,
                                      MarkCompress(FileCreatedResponse(request), request), order)
                         ELSE [parsedConn EXCEPT ![c].pc = "WritingFile",
                                                 ![c].file_pos = 0]
        /\ UNCHANGED <<file_dir, deflate_fill, listening, accept_errors>>

\* handle_file_request, write_all of the body: one write call of its loop,
\* which writes some of the bytes left or fails
FileWrite(c) ==
    \E order \in HashOrders :
    LET k == conn[c]
        request == k.request.val
        body == request.body.val
        filename == Segment3(request)
        left == Len(body) - k.file_pos
    IN  /\ k.pc = "WritingFile"
        /\ \/ \E n \in 1..left :
                 /\ files' = WriteAt(files, filename, k.file_pos,
                                     SubSeq(body, k.file_pos + 1, k.file_pos + n))
                 /\ conn' = IF n = left
                            THEN Respond(conn, c,
                                         MarkCompress(FileCreatedResponse(request), request), order)
                            ELSE [conn EXCEPT ![c].file_pos = @ + n]
           \/ /\ conn' = Respond(conn, c, MarkCompress(FileErrorResponse(request), request), order)
              /\ UNCHANGED files
        /\ UNCHANGED <<file_dir, deflate_fill, listening, accept_errors>>

\* a serialization that iterates the headers in the opposite order
SerializedReversed(k) ==
    Some(to_http_string(k.response.val,
                        [i \in 1..Len(k.hash_order) |->
                            k.hash_order[Len(k.hash_order) + 1 - i]],
                        deflate_fill))

\* line 137: response.to_http_string() of the thread's Response
Serialized(k) == Some(to_http_string(k.response.val, k.hash_order, deflate_fill))

\* handle_connection, lines 136-140: to_http_string and write_all on the
\* stream; then the stream is dropped
WriteResponse(c) ==
    LET k == conn[c]
    IN  /\ k.pc = "WritingResponse"
        /\ \/ conn' = [conn EXCEPT ![c].written = Serialized(k),
                                      ![c].result = "Ok",
                                      ![c].pc = "Closed"]
           \/ conn' = Fatal(conn, c, "Failed to write response")
        /\ UNCHANGED <<files, file_dir, deflate_fill, listening, accept_errors>>

\* a step of the worker thread of connection c
Step(c) ==
    \/ BeginRead(c)
    \/ ReadLine(c)
    \/ ReadBody(c)
    \/ Dispatch(c)
    \/ FileWrite(c)
    \/ WriteResponse(c)

\* the requests of Spec, which serves MaxConns connections at once
ConcRequests ==
    {ClientRequest(RequestLine(StrPost, PathFile, StrHttp1_1),
                   <<HdrContentLength(<<"3">>)>>, TRUE, <<"a", "b", "c">>, "eof"),
     ClientRequest(RequestLine(StrPost, PathFile, StrHttp1_1),
                   <<HdrContentLength(<<"1">>)>>, TRUE, <<"x">>, "eof"),
     ClientRequest(RequestLine(StrPost, PathFile, StrHttp1_1),
                   <<HdrContentLength(<<"3">>)>>, TRUE, BodyTwoLines, "eof"),
     ClientRequest(RequestLine(StrPost, PathFile, StrHttp1_1),
                   <<HdrContentLength(<<"3">>)>>, TRUE, <<"x">>, "eof"),
     ClientRequest(RequestLine(StrPost, PathFile, StrHttp1_1),
                   <<HdrContentLength(<<"z">>)>>, TRUE, <<"x">>, "eof"),
     ClientRequest(RequestLine(StrPost, PathFile, StrHttp1_1),
                   <<HdrContentLength(HugeLength)>>, TRUE, <<"x">>, "eof"),
     ClientRequest(RequestLine(StrGet, PathFile, StrHttp1_1), <<>>, TRUE, <<>>, "eof"),
     ClientRequest(RequestLine(StrGet, PathFile, StrHttp1_1), <<>>, TRUE, <<"xFF">>, "eof"),
     ClientRequest(<<"B", "R", "E", "W">> \o Sp \o PathRoot \o Sp \o StrHttp1_1,
                   <<>>, TRUE, <<>>, "eof"),
     ClientRequest(RequestLine(StrGet, PathRoot, StrHttp1_1), <<>>, FALSE, <<>>, "error")}

Next ==
    \/ AcceptError
    \/ \E c \in Conns : \E r \in ConcRequests : Accept(c, r)
    \/ \E c \in Conns : Step(c)

\* the server was started with --directory
ConcInit ==
    /\ Init
    /\ file_dir
    /\ deflate_fill = "K"

\* MaxConns connections at once, the requests of ConcRequests
Spec == ConcInit /\ [][Next]_vars

ReqNext ==
    \/ AcceptError
    \/ \E r \in Requests : Accept(1, r)
    \/ Step(1)

\* one connection, every request of Requests
ReqSpec == Init /\ [][ReqNext]_vars

\* the requests of LiveSpec: those of Spec, and one that ends in end-of-stream
\* before the blank line
LiveRequests ==
    ConcRequests
    \cup {ClientRequest(RequestLine(StrGet, PathRoot, StrHttp1_1), <<>>, FALSE, <<>>, "eof")}

LiveNext ==
    \/ AcceptError
    \/ \E r \in LiveRequests : Accept(1, r)
    \/ Step(1)

\* one connection whose worker thread is scheduled as long as it can step:
\* every read and write on the stream returns
LiveSpec == ConcInit /\ [][LiveNext]_vars /\ WF_vars(Step(1))

----------------------------------------------------------------------------
(* Properties *)

\* the request of connection c was parsed and a response was built for it
Answered(c) == conn[c].response.some

\* parse_request failed on the bytes connection c read
ParseFailed(c) == Answered(c) /\ ~parse_request(conn[c].request_lines).ok

\* the bytes of s before and after its first blank line (CRLF CRLF)
HeadOf(s) == SubSeq(s, 1, Find(s, CRLF \o CRLF) - 1)

AfterBlankLine(s) == SubSeq(s, Find(s, CRLF \o CRLF) + 4, Len(s))

\* the status code in the status line of the written bytes s
WrittenStatus(s) == SplitWhitespace(Lines(s)[1])[2]

\* C1 as stated: after a parse failure the response has status 404, and the
\* connection writes it and closes normally.
C1_ParseFailure404 ==
    \A c \in Conns :
        ParseFailed(c) =>
            /\ conn[c].response.val.status_code = 404
            /\ conn[c].pc = "Closed" /\ conn[c].result = "Ok" =>
                   WrittenStatus(conn[c].written.val) = <<"4", "0", "4">>

\* C1 amended: after a parse failure no file is created, the response has
\* status 500, version HTTP/1.1, no header and no body, and the connection
\* closes after writing it, unless the write on the stream fails.
C1_ParseFailure500 ==
    \A c \in Conns :
        ParseFailed(c) =>
            /\ conn[c].pc \in {"WritingResponse", "Closed"}
            /\ conn[c].response.val = Response(500, "Http1_1", EmptyMap, None)
            /\ conn[c].pc = "Closed" =>
                   \/ /\ conn[c].result = "Ok"
                      /\ conn[c].written.some
                      /\ WrittenStatus(conn[c].written.val) = <<"5", "0", "0">>
                      /\ Lines(conn[c].written.val)[1] =
                             StrHttp1_1 \o Sp \o <<"5", "0", "0">> \o Sp \o reason_phrase(500)
                   \/ conn[c].result = "Failed to write response"

\* a parse failure was answered and the connection closed normally
C1_Witness ==
    \E c \in Conns :
        /\ ParseFailed(c)
        /\ conn[c].pc = "Closed"
        /\ conn[c].result = "Ok"
        /\ conn[c].request.err = "InvalidMethod"

\* connection c was answered on a POST of /files/NAME
PostFiles(c) ==
    /\ Answered(c)
    /\ conn[c].request.ok
    /\ conn[c].request.val.method = "Post"
    /\ Route(conn[c].request.val) = "files"

\* C2 as stated: a POST of /files/NAME is answered 201 or 500, and 500 when
\* no directory is configured.
C2_PostStatus201Or500 ==
    \A c \in Conns :
        PostFiles(c) =>
            /\ conn[c].response.val.status_code \in {201, 500}
            /\ ~file_dir => conn[c].response.val.status_code = 500

\* C2 amended: a POST of /files/NAME is answered 404 when no directory is
\* configured; with a directory, 500 when the parsed request has no body, and
\* otherwise 201 with the body in the file, or 500 (create or write failed).
C2_PostStatus ==
    \A c \in Conns :
        PostFiles(c) =>
            LET status == conn[c].response.val.status_code
                request == conn[c].request.val
            IN  /\ ~file_dir => status = 404
                /\ file_dir /\ ~request.body.some => status = 500
                /\ file_dir /\ request.body.some => status \in {201, 500}
                /\ status = 201 =>
                       /\ file_dir
                       /\ request.body.some
                       /\ files[Segment3(request)] =
                              [exists |-> TRUE, data |-> request.body.val]

\* a POST wrote its body and was answered 201
C2_Witness ==
    \E c \in Conns :
        /\ PostFiles(c)
        /\ conn[c].pc = "Closed"
        /\ conn[c].response.val.status_code = 201
        /\ files[FileName].data = BodyAb

\* the client of request r sent an Accept-Encoding header that holds "gzip",
\* in any letter case
SentGzip(r) ==
    \E i \in 1..Len(r.headers) :
        /\ StartsWith(ToLowercase(r.headers[i]), KeyAcceptEncoding \o ColonSpace)
        /\ Contains(ToLowercase(r.headers[i]), StrGzip)

\* C3 as stated: should_compress is set only for a client that accepts gzip,
\* on /echo/S or on a GET of /files/NAME.
C3_CompressOnlyEchoAndFilesGet ==
    \A c \in Conns :
        Answered(c) /\ conn[c].request.ok /\ conn[c].response.val.should_compress =>
            /\ SentGzip(conn[c].sent)
            /\ \/ Route(conn[c].request.val) = "echo"
               \/ /\ Route(conn[c].request.val) = "files"
                  /\ conn[c].request.val.method = "Get"

\* C3 amended: should_compress is set only for a client that accepts gzip, on
\* /echo/S or on /files/NAME with any method; never on the root route, the
\* user-agent route or an unmatched path.
C3_CompressOnlyEchoAndFiles ==
    \A c \in Conns :
        Answered(c) /\ conn[c].request.ok /\ conn[c].response.val.should_compress =>
            /\ SentGzip(conn[c].sent)
            /\ Route(conn[c].request.val) \in {"echo", "files"}

\* a POST of /files/NAME by a client that accepts gzip is marked
C3_Witness ==
    \E c \in Conns :
        /\ PostFiles(c)
        /\ SentGzip(conn[c].sent)
        /\ conn[c].response.val.should_compress
        /\ conn[c].pc = "Closed"

\* C4: in the written bytes, what follows the first blank line is the body:
\* the status line and the headers end with exactly one blank line.
C4_OneBlankLine ==
    \A c \in Conns :
        conn[c].written.some =>
            AfterBlankLine(conn[c].written.val) = OutBody(conn[c].response.val, deflate_fill)

\* connection c was answered 201 on a POST of /files/NAME and has closed
Posted201(c) ==
    /\ PostFiles(c)
    /\ conn[c].pc = "Closed"
    /\ conn[c].response.val.status_code = 201

\* connection c has called File::create
TouchedFile(c) ==
    \/ conn[c].pc = "WritingFile"
    \/ PostFiles(c) /\ CreatesFile(conn[c].request.val, file_dir)

\* the client sent the length of its body as Content-Length
MatchingLength(r) ==
    \E i \in 1..Len(r.headers) :
        r.headers[i] = HdrContentLength(UsizeToString(Len(r.body)))

\* C5: once a POST of body B to /files/NAME, sent with its length, has
\* completed with 201 and no other connection writes the file, a GET of
\* /files/NAME is answered 200 with body B.
C5_RoundTrip ==
    [][\A c, d \in Conns :
           ( /\ c # d
             /\ Posted201(c)
             /\ MatchingLength(conn[c].sent)
             /\ \A e \in Conns \ {c} : ~TouchedFile(e)
             /\ conn[d].pc = "Dispatching"
             /\ conn'[d].pc = "WritingResponse"
             /\ conn'[d].request.ok
             /\ conn'[d].request.val.method = "Get"
             /\ Route(conn'[d].request.val) = "files"
             /\ Segment3(conn'[d].request.val) = Segment3(conn[c].request.val) )
           => /\ conn'[d].response.val.status_code = 200
              /\ conn'[d].response.val.body = Some(conn[c].sent.body)]_vars

\* connections c and d both completed a POST of the same file with 201, and
\* no other connection called File::create
BothPosted(c, d) ==
    /\ c # d
    /\ Posted201(c)
    /\ Posted201(d)
    /\ Segment3(conn[c].request.val) = Segment3(conn[d].request.val)
    /\ \A e \in Conns \ {c, d} : ~TouchedFile(e)

Max(a, b) == IF a >= b THEN a ELSE b

Min(a, b) == IF a <= b THEN a ELSE b

\* C6 as stated: after two POSTs of the same file that both completed with
\* 201, the file holds exactly the body of one of them.
C6_LastWriteWins ==
    \A c, d \in Conns :
        BothPosted(c, d) =>
            files[Segment3(conn[c].request.val)].data
                \in {conn[c].request.val.body.val, conn[d].request.val.body.val}

\* C6 amended: after two POSTs of the same file that both completed with
\* 201, the file is no shorter than the shorter body and no longer than the
\* longer one, and each of its bytes is the byte of one of the two bodies at
\* that offset, or a zero byte of a gap left by a truncation between writes.
C6_Overlay ==
    \A c, d \in Conns :
        BothPosted(c, d) =>
            LET f == files[Segment3(conn[c].request.val)]
                b1 == conn[c].request.val.body.val
                b2 == conn[d].request.val.body.val
            IN  /\ f.exists
                /\ Len(f.data) >= Min(Len(b1), Len(b2))
                /\ Len(f.data) <= Max(Len(b1), Len(b2))
                /\ \A i \in 1..Len(f.data) :
                       \/ i <= Len(b1) /\ f.data[i] = b1[i]
                       \/ i <= Len(b2) /\ f.data[i] = b2[i]
                       \/ f.data[i] = "x00"

\* two POSTs completed with 201 and the file holds a mixture of the bodies
C6_Witness ==
    \E c, d \in Conns :
        /\ BothPosted(c, d)
        /\ files[FileName].data = <<"x", "b", "c">>

\* C7: a response with should_compress and a body is written with the header
\* Content-Encoding: gzip and with a Content-Length equal to the number of
\* bytes written after the blank line.
C7_CompressedLength ==
    \A c \in Conns :
        ( /\ conn[c].written.some
          /\ conn[c].response.val.should_compress
          /\ conn[c].response.val.body.some )
        => LET out == conn[c].written.val
               head == Lines(HeadOf(out))
           IN  /\ \E i \in 2..Len(head) : head[i] = ContentEncoding \o ColonSpace \o StrGzip
               /\ \E i \in 2..Len(head) :
                      head[i] = ContentLength \o ColonSpace
                                \o UsizeToString(Len(AfterBlankLine(out)))

\* the place of a state in the order of the connection's life; WritingFile is
\* the part of Dispatching after File::create
Rank(pc) ==
    CASE pc = "Idle" -> 0
      [] pc = "Accepted" -> 1
      [] pc = "ReadingHeaders" -> 2
      [] pc = "ReadingBody" -> 3
      [] pc = "Dispatching" -> 4
      [] pc = "WritingFile" -> 5
      [] pc = "WritingResponse" -> 6
      [] pc = "Closed" -> 7

\* C8: a connection only moves forward through Accepted, ReadingHeaders,
\* ReadingBody, Dispatching, WritingResponse, Closed; ReadingBody is entered
\* from ReadingHeaders and only with a tracked Content-Length above 0; the
\* response is built once, after the headers (and body) were read, and written
\* once, from WritingResponse; a closed connection does nothing more.
C8_ForwardOnly ==
    [][\A c \in Conns :
           LET k == conn[c]
               n == conn'[c]
           IN  /\ Rank(n.pc) >= Rank(k.pc)
               /\ n.pc = "ReadingBody" =>
                      k.pc \in {"ReadingHeaders", "ReadingBody"} /\ n.content_length > 0
               /\ k.pc = "ReadingBody" => n.pc \in {"ReadingBody", "Dispatching", "Closed"}
               /\ n.pc = "Dispatching" => k.pc \in {"ReadingHeaders", "ReadingBody", "Dispatching"}
               /\ n.response.some /\ ~k.response.some => k.pc \in {"Dispatching", "WritingFile"}
               /\ k.response.some => n.response = k.response
               /\ n.pc = "WritingResponse" => n.response.some
               /\ n.written.some /\ ~k.written.some => k.pc = "WritingResponse" /\ n.pc = "Closed"
               /\ k.written.some => n.written = k.written
               /\ k.pc = "Closed" => n = k]_vars

\* a connection read a body, was dispatched, wrote its response and closed
C8_Witness ==
    \E c \in Conns :
        /\ conn[c].pc = "Closed"
        /\ conn[c].written.some
        /\ conn[c].content_length > 0
        /\ conn[c].request.ok

\* C9: every accepted connection is closed in the end, when its thread keeps
\* being scheduled and every read returns bytes, end-of-stream or an error.
C9_EventuallyClosed ==
    \A c \in Conns : (conn[c].pc = "Accepted") ~> (conn[c].pc = "Closed")

\* end-of-stream ended the header phase of a connection, which was answered
C9_Witness ==
    \E c \in Conns :
        /\ conn[c].pc = "Closed"
        /\ ~conn[c].sent.blank
        /\ conn[c].sent.end = "eof"
        /\ conn[c].result = "Ok"

\* C10: the accept loop never ends; a step changes at most one connection; a
\* step in which a connection fails (it closes with an error) or answers a
\* parse failure leaves the files and the listener alone; an accept error
\* leaves every connection alone.
C10_Isolation ==
    [][/\ listening'
       /\ \A c, d \in Conns : c # d /\ conn'[c] # conn[c] => conn'[d] = conn[d]
       /\ \A c \in Conns :
              ( /\ conn[c].pc # "Closed"
                /\ conn'[c].pc = "Closed"
                /\ conn'[c].result # "Ok" )
              => /\ files' = files
                 /\ accept_errors' = accept_errors
       /\ \A c \in Conns :
              conn[c].pc = "Dispatching" /\ conn'[c].response.some /\ ~conn'[c].request.ok
              => files' = files
       /\ accept_errors' # accept_errors => conn' = conn /\ files' = files]_vars

\* parse_request was called on the bytes connection c read
Dispatched(c) == conn[c].request.ok \/ conn[c].request.err # ""

\* the whitespace-separated tokens of the request line the client of c sent
SentTokens(c) == SplitWhitespace(conn[c].sent.line)

KnownMethods == {StrGet, StrPost, StrPut, StrDelete, StrPatch}

KnownVersions == {StrHttp1_0, StrHttp1_1, StrHttp2_0}

\* C11 as stated: a request line that does not split into exactly three
\* tokens, fewer or more, makes parse_request return InvalidRequest.
C11_ExactlyThreeTokens ==
    \A c \in Conns :
        Dispatched(c) /\ Len(SentTokens(c)) # 3 =>
            conn[c].request.err = "InvalidRequest"

\* C11 amended: parse_request returns InvalidRequest exactly when the request
\* line has no token, or fewer than three tokens of which the first is a
\* known method; an unknown first token gives InvalidMethod whatever the
\* number of tokens; tokens after the third are ignored.
C11_RequestLineErrors ==
    \A c \in Conns :
        Dispatched(c) =>
            LET t == SentTokens(c)
                r == conn[c].request
            IN  /\ r.err = "InvalidRequest"
                       <=> \/ Len(t) = 0
                           \/ Len(t) < 3 /\ t[1] \in KnownMethods
                /\ Len(t) >= 1 /\ t[1] \notin KnownMethods => r.err = "InvalidMethod"
                /\ Len(t) >= 3 /\ t[1] \in KnownMethods /\ t[3] \notin KnownVersions
                       => r.err = "InvalidVersion"
                /\ Len(t) >= 3 /\ t[1] \in KnownMethods /\ t[3] \in KnownVersions
                       => r.ok /\ r.val.path = t[2]

\* a request line of four tokens was parsed without error
C11_Witness ==
    \E c \in Conns :
        /\ Dispatched(c)
        /\ Len(SentTokens(c)) = 4
        /\ conn[c].request.ok

\* C12: the Request that reaches dispatch has a body only if the handler
\* read Content-Length (> 0) body bytes after the headers.
C12_BodyOnlyIfRead ==
    \A c \in Conns :
        Dispatched(c) /\ conn[c].request.ok /\ conn[c].request.val.body.some =>
            conn[c].content_length > 0

\* the value of header line h when its name is Content-Length in any letter
\* case: the text after the first colon, trimmed; None for any other line
SentLengthValue(h) ==
    IF StartsWith(ToLowercase(h), ToLowercase(ContentLengthPrefix))
    THEN Some(Trim(SubSeq(h, Len(ContentLengthPrefix) + 1, Len(h))))
    ELSE None

\* the client of request r sent a Content-Length header that is no number
SentBadLength(r) ==
    \E i \in 1..Len(r.headers) :
        /\ SentLengthValue(r.headers[i]).some
        /\ ~ParseUsize(SentLengthValue(r.headers[i]).val).ok

\* C13: a connection whose client sent a Content-Length that is no number
\* gets no further than the header phase: it is closed from there, its
\* request is never dispatched, no file is created, and it is sent no
\* response or a 500.
C13_BadLengthFatal ==
    \A c \in Conns :
        SentBadLength(conn[c].sent) =>
            /\ conn[c].pc \in {"Accepted", "ReadingHeaders", "Closed"}
            /\ ~Dispatched(c)
            /\ ~TouchedFile(c)
            /\ Answered(c) => conn[c].response.val.status_code = 500

\* in this step connection c dispatches a request on /files/NAME whose
\* method is neither GET nor POST
OtherMethodOnFiles(c) ==
    /\ conn[c].pc = "Dispatching"
    /\ conn'[c].request.ok
    /\ Route(conn'[c].request.val) = "files"
    /\ conn'[c].request.val.method \notin {"Get", "Post"}

\* C14 as stated: a request on /files/NAME with a method other than GET and
\* POST is answered 500, with or without a configured directory, and the
\* files are left as they are.
C14_OtherMethod500 ==
    [][\A c \in Conns :
           OtherMethodOnFiles(c) =>
               /\ conn'[c].response.some
               /\ conn'[c].response.val.status_code = 500
               /\ files' = files]_vars

\* C14 amended: such a request is answered at once, 500 with a configured
\* directory and 404 without one, and the files are left as they are.
C14_OtherMethodStatus ==
    [][\A c \in Conns :
           OtherMethodOnFiles(c) =>
               /\ conn'[c].response.some
               /\ conn'[c].pc = "WritingResponse"
               /\ conn'[c].response.val.status_code = (IF file_dir THEN 500 ELSE 404)
               /\ conn'[c].response.val.body = None
               /\ files' = files]_vars

\* a PUT on /files/NAME of an existing file was answered 500
C14_Witness ==
    \E c \in Conns :
        /\ Answered(c)
        /\ conn[c].request.ok
        /\ Route(conn[c].request.val) = "files"
        /\ conn[c].request.val.method = "Put"
        /\ file_dir
        /\ files[FileName].exists
        /\ conn[c].response.val.status_code = 500
        /\ conn[c].pc = "Closed"

\* the version label in the status line of the written bytes s
WrittenVersion(s) == SplitWhitespace(Lines(s)[1])[1]

\* C15: the response written for a parsed request carries the version label
\* of the request line, the response written after a parse failure carries
\* HTTP/1.1.
C15_VersionEchoed ==
    \A c \in Conns :
        conn[c].written.some =>
            IF conn[c].request.ok
            THEN /\ WrittenVersion(conn[c].written.val) = SentTokens(c)[3]
                 /\ conn[c].response.val.version = conn[c].request.val.version
            ELSE WrittenVersion(conn[c].written.val) = StrHttp1_1

\* a 404 was written for a request of version HTTP/2.0
C15_Witness ==
    \E c \in Conns :
        /\ conn[c].written.some
        /\ conn[c].request.ok
        /\ SentTokens(c)[3] = StrHttp2_0
        /\ conn[c].response.val.status_code = 404
        /\ Route(conn[c].request.val) = "not-found"

ParsedLength(request) ==
    LET value == Get(request.headers, ToLowercase(ContentLength))
    IN  IF value.some /\ ParseUsize(Trim(value.val)).ok
        THEN ParseUsize(Trim(value.val)).val
        ELSE 0

\* C17: when the Request that reaches dispatch has a content-length header
\* with a number n > 0, the handler has read exactly n body bytes for it.
C17_FramingAgrees ==
    \A c \in Conns :
        Dispatched(c) /\ conn[c].request.ok /\ ParsedLength(conn[c].request.val) > 0 =>
            conn[c].content_length = ParsedLength(conn[c].request.val)

\* the header lines of the written bytes s: the lines between the status
\* line and the first blank line
WrittenHeaders(s) == Tail(Lines(HeadOf(s)))

\* C18: a response written with a body carries a Content-Length header whose
\* value is the number of bytes written after the blank line.
C18_BodyLength ==
    \A c \in Conns :
        conn[c].written.some /\ conn[c].response.val.body.some =>
            \E i \in 1..Len(WrittenHeaders(conn[c].written.val)) :
                WrittenHeaders(conn[c].written.val)[i] =
                    ContentLength \o ColonSpace
                    \o UsizeToString(Len(AfterBlankLine(conn[c].written.val)))

\* C19: after a POST of /files/NAME that was answered 500 with a configured
\* directory, file NAME is what it was before the request (in ReqSpec, where
\* one connection is served, what it was when the server started).
C19_FailedPostKeepsFile ==
    \A c \in Conns :
        ( /\ PostFiles(c)
          /\ file_dir
          /\ conn[c].response.val.status_code = 500
          /\ \A d \in Conns \ {c} : conn[d].pc = "Idle" )
        => files[Segment3(conn[c].request.val)] \in InitialFiles

StatusCodes == {200, 201, 404, 500}

\* the text of the status line of the written bytes s after the version label
WrittenStatusText(s) ==
    SubSeq(Lines(s)[1], Len(WrittenVersion(s)) + 2, Len(Lines(s)[1]))

\* C20: the status code of every response is 200, 201, 404 or 500, and the
\* status line written for it holds that code and its reason phrase, never
\* "Unknown Status".
C20_KnownStatus ==
    \A c \in Conns :
        /\ Answered(c) => conn[c].response.val.status_code \in StatusCodes
        /\ conn[c].written.some =>
               WrittenStatusText(conn[c].written.val) \in
                   {<<"2", "0", "0", " ", "O", "K">>,
                    <<"2", "0", "1", " ", "C", "r", "e", "a", "t", "e", "d">>,
                    <<"4", "0", "4", " ", "N", "o", "t", " ", "F", "o", "u", "n", "d">>,
                    <<"5", "0", "0", " ", "I", "n", "t", "e", "r", "n", "a", "l", " ",
                      "S", "e", "r", "v", "e", "r", " ", "E", "r", "r", "o", "r">>}

\* a response 201 Created was written
C20_Witness ==
    \E c \in Conns :
        /\ conn[c].written.some
        /\ WrittenStatusText(conn[c].written.val) =
               <<"2", "0", "1", " ", "C", "r", "e", "a", "t", "e", "d">>

====
